---- MODULE Spec2Model ----
(***************************************************************************)
(* podcast2Anki: the resumable batch-job orchestration of                  *)
(* create_anki_cards.py (main, the job handle file, the poller, the result *)
(* fetcher) and the numbered-list parser process_batch_results.            *)
(*                                                                         *)
(* Text is modelled as sequences of one-character strings, so that         *)
(* str.split, str.strip, "\n".join and the regular expression are          *)
(* computed, not assumed.                                                  *)
(***************************************************************************)
EXTENDS Integers, Sequences, FiniteSets, TLC

\* ------------------------------------------------------------------ bounds
MaxLines == 2
MaxJobs == 2

\* ------------------------------------------------------------ text helpers
NL == "\n"
WS == {" ", "\t", NL}
Digits == {"0", "1", "2", "3", "4", "5", "6", "7", "8", "9"}

RECURSIVE LStrip(_)
LStrip(s) == IF s = <<>> THEN s
             ELSE IF Head(s) \in WS THEN LStrip(Tail(s)) ELSE s

RECURSIVE RStrip(_)
RStrip(s) == IF s = <<>> THEN s
             ELSE IF s[Len(s)] \in WS THEN RStrip(SubSeq(s, 1, Len(s) - 1)) ELSE s

\* str.strip()
Strip(s) == RStrip(LStrip(s))

RECURSIVE SplitAcc(_, _, _)
SplitAcc(s, cur, acc) ==
    IF s = <<>> THEN Append(acc, cur)
    ELSE IF Head(s) = NL THEN SplitAcc(Tail(s), <<>>, Append(acc, cur))
    ELSE SplitAcc(Tail(s), Append(cur, Head(s)), acc)

\* content.split("\n")
Split(s) == SplitAcc(s, <<>>, <<>>)

\* "\n".join(parts)
RECURSIVE Join(_)
Join(parts) == IF parts = <<>> THEN <<>>
               ELSE IF Len(parts) = 1 THEN parts[1]
               ELSE parts[1] \o <<NL>> \o Join(Tail(parts))

RECURSIVE CountLeading(_, _)
CountLeading(s, set) == IF s = <<>> \/ Head(s) \notin set THEN 0
                        ELSE 1 + CountLeading(Tail(s), set)

NoMatch == [ok |-> FALSE, group1 |-> <<>>]

\* pattern = re.compile(r'^\d+\.\s+(.*)'); pattern.match(line)
PatternMatch(line) ==
    LET nd == CountLeading(line, Digits)
        afterDigits == SubSeq(line, nd + 1, Len(line))
        afterDot == IF afterDigits = <<>> THEN <<>> ELSE Tail(afterDigits)
        ns == CountLeading(afterDot, WS)
    IN  IF nd >= 1 /\ afterDigits # <<>> /\ Head(afterDigits) = "." /\ ns >= 1
        THEN [ok |-> TRUE, group1 |-> SubSeq(afterDot, ns + 1, Len(afterDot))]
        ELSE NoMatch

\* line.strip().startswith('-')
StartsWithDash(line) == LET l == Strip(line) IN l # <<>> /\ Head(l) = "-"

\* ------------------------------------------------- the numbered-list parser
\* Variant: a plain text line closes the open point and opens one of its own.
ParseLine_TextOpensPoint(st, rawline) ==
    LET line == Strip(rawline)
        m == PatternMatch(line)
    IN  IF line = <<>> THEN st
        ELSE IF m.ok \/ ~StartsWithDash(line)
        THEN [points |-> IF st.current_point # <<>>
                         THEN Append(st.points, Join(st.current_point))
                         ELSE st.points,
              current_point |-> <<IF m.ok THEN Strip(m.group1) ELSE line>>,
              is_first_subitem |-> TRUE]
        ELSE [points |-> st.points,
              current_point |-> (IF st.is_first_subitem
                                 THEN Append(st.current_point, <<>>)
                                 ELSE st.current_point) \o <<line>>,
              is_first_subitem |-> FALSE]

\* One iteration of "for line in content.split("\n")": st is the triple of the
\* loop's variables (points, current_point, is_first_subitem).
ParseLine(st, rawline) ==
    LET line == Strip(rawline)
        m == PatternMatch(line)
    IN  IF line = <<>> THEN st
        ELSE IF m.ok
        THEN [points |-> IF st.current_point # <<>>
                         THEN Append(st.points, Join(st.current_point))
                         ELSE st.points,
              current_point |-> <<Strip(m.group1)>>,
              is_first_subitem |-> TRUE]
        ELSE IF StartsWithDash(line)
        THEN [points |-> st.points,
              current_point |-> (IF st.is_first_subitem
                                 THEN Append(st.current_point, <<>>)
                                 ELSE st.current_point) \o <<line>>,
              is_first_subitem |-> FALSE]
        ELSE [points |-> st.points,
              current_point |-> Append(st.current_point, line),
              is_first_subitem |-> st.is_first_subitem]

RECURSIVE ParseLines(_, _)
ParseLines(st, ls) == IF ls = <<>> THEN st
                      ELSE ParseLines(ParseLine(st, Head(ls)), Tail(ls))

\* Lines 242-266 for one content string, entered with the flag value flag.
ParseContent(content, flag) ==
    ParseLines([points |-> <<>>, current_point |-> <<>>, is_first_subitem |-> flag],
               Split(content))

\* ------------------------------------------------------------ dictionaries
EmptyDict == [k \in {} |-> <<>>]

\* d[k] = v
Put(d, k, v) == [x \in DOMAIN d \cup {k} |-> IF x = k THEN v ELSE d[x]]

\* dict.update
Update(d, other) == [x \in DOMAIN d \cup DOMAIN other |->
                        IF x \in DOMAIN other THEN other[x] ELSE d[x]]

\* ------------------------------------------------ records of the job output
Episodes == {"e1", "e2"}

\* A line of batch_output.jsonl: either text json.loads rejects, or a record
\* {custom_id, response: {status_code, body: {choices: [{message: {content}}]}}}.
\* The request built by create_jsonl_file asks for one completion per task, so
\* a record carries exactly one choice.
MalformedLine == [malformed |-> TRUE, custom_id |-> "", status_code |-> 0, content |-> <<>>]
Record(id, code, content) ==
    [malformed |-> FALSE, custom_id |-> id, status_code |-> code, content |-> content]
NoRecord == [malformed |-> FALSE, custom_id |-> "", status_code |-> 0, content |-> <<>>]

\* Variant: the status code is not looked at.
IsSuccess_AnyStatus(rec) == TRUE

\* "if response.get("status_code") == 200:" (line 234)
IsSuccess(rec) == rec.status_code = 200

\* Variant: a record whose content parses to no point stores nothing.
ProcessRecord_SkipsEmpty(acc, rec) ==
    IF rec.malformed THEN acc
    ELSE IF IsSuccess(rec)
    THEN LET p == ParseContent(rec.content, acc.is_first_subitem)
         IN  [result |-> IF p.points = <<>> THEN acc.result
                         ELSE Put(acc.result, rec.custom_id, p.points),
              is_first_subitem |-> p.is_first_subitem]
    ELSE acc

\* One iteration of "for line in file" (lines 225-271) on the pair
\* (result, is_first_subitem) that survives from one record to the next.
ProcessRecord(acc, rec) ==
    IF rec.malformed THEN acc
    ELSE IF IsSuccess(rec)
    THEN LET p == ParseContent(rec.content, acc.is_first_subitem)
         IN  [result |-> Put(acc.result, rec.custom_id, p.points),
              is_first_subitem |-> p.is_first_subitem]
    ELSE acc

RECURSIVE ProcessRecords(_, _)
ProcessRecords(acc, file) ==
    IF file = <<>> THEN acc
    ELSE ProcessRecords(ProcessRecord(acc, Head(file)), Tail(file))

process_batch_results(file) ==
    ProcessRecords([result |-> EmptyDict, is_first_subitem |-> FALSE], file).result

\* ---------------------------------------------------------------- contents
\* Characters of a literal, written out.
Line_1A == <<"1", ".", " ", "A">>
Line_2B == <<"2", ".", " ", "B">>
Line_x == <<" ", "-", " ", "x">>
Line_t == <<"t">>
Line_blank == <<>>

\* "1. A\n - x\n2. B", "t" and "t\n1. A\n2. B": what the remote model may
\* answer in the pipeline specification.
Content_Ax_B == Join(<<Line_1A, Line_x, Line_2B>>)
Content_t == Line_t
Content_t_A_B == Join(<<Line_t, Line_1A, Line_2B>>)
PipeContents == {Content_Ax_B, Content_t, Content_t_A_B}

\* ---------------------------------------------------------------- state
NoJob == 0

VARIABLES
    \* durable state: files under transcripts/ and results/
    transcripts,      \* episode ids that have transcripts/<id>.txt
    resultsFile,      \* flashcard_results.json: episode id -> list of points
    handleFile,       \* last_batch_id: a job id, or NoJob when the file is absent
    outputFile,       \* batch_output.jsonl: sequence of lines
    tasksFile,        \* batch_tasks.jsonl: the custom_ids of its tasks
    csvFile,          \* anki_flashcards.csv: sequence of rows
    \* the remote batch service
    jobs,             \* job id -> [ids, status]
    \* the running process (main)
    pc, results, new_transcripts, file_id, batch_id, batch_status,
    output_file_id, ai_results, error, flashcards,
    \* history: the job whose id was stored and whose download has not returned
    tracked,
    \* process_batch_results, statement by statement
    ppc, record, result, is_first_subitem, points, current_point, lines

durable == <<transcripts, resultsFile, handleFile, outputFile, tasksFile, csvFile>>
volatile == <<results, new_transcripts, file_id, batch_id, batch_status,
              output_file_id, ai_results, error, flashcards>>
parserVars == <<ppc, record, result, is_first_subitem, points, current_point, lines>>
vars == <<durable, jobs, pc, volatile, tracked, parserVars>>

NoError == [kind |-> "none", batch_id |-> NoJob, status |-> "none"]

\* A process that is not running holds nothing.
ResetVolatile ==
    /\ results' = EmptyDict
    /\ new_transcripts' = {}
    /\ file_id' = {}
    /\ batch_id' = NoJob
    /\ batch_status' = "none"
    /\ output_file_id' = NoJob
    /\ ai_results' = EmptyDict
    /\ error' = NoError
    /\ flashcards' = <<>>

ParserInit ==
    /\ ppc = "open"
    /\ record = NoRecord
    /\ result = EmptyDict
    /\ is_first_subitem = FALSE
    /\ points = <<>>
    /\ current_point = <<>>
    /\ lines = <<>>

Init ==
    /\ transcripts = {}
    /\ resultsFile = EmptyDict
    /\ handleFile = NoJob
    /\ outputFile = <<>>
    /\ tasksFile = {}
    /\ csvFile = <<>>
    /\ jobs = <<>>
    /\ pc = "idle"
    /\ results = EmptyDict
    /\ new_transcripts = {}
    /\ file_id = {}
    /\ batch_id = NoJob
    /\ batch_status = "none"
    /\ output_file_id = NoJob
    /\ ai_results = EmptyDict
    /\ error = NoError
    /\ flashcards = <<>>
    /\ tracked = NoJob
    /\ ParserInit

\* ------------------------------------------------------------- environment
\* process_podcasts.py writes a transcript for an episode of the metadata.
\* The ids of Episodes hold no "/", so the file is named by the id itself;
\* the file names of other ids are the subject of KeySpec.
TranscriptAppears(e) ==
    /\ e \notin transcripts
    /\ transcripts' = transcripts \cup {e}
    /\ UNCHANGED <<csvFile, resultsFile, handleFile, outputFile, tasksFile, jobs, pc,
                   volatile, tracked, parserVars>>

EpisodeOrder == <<"e1", "e2">>

\* The lines the remote service may write for one task: none, an unparsable
\* line, an error record, or a 200 record with some content.
LineChoices(id) ==
    {<<>>, <<MalformedLine>>, <<Record(id, 500, Content_Ax_B)>>}
        \cup {<<Record(id, 200, c)>> : c \in PipeContents}

RECURSIVE OutputsFrom(_, _)
OutputsFrom(i, ids) ==
    IF i > Len(EpisodeOrder) THEN {<<>>}
    ELSE LET rest == OutputsFrom(i + 1, ids)
         IN  IF EpisodeOrder[i] \in ids
             THEN {l \o r : l \in LineChoices(EpisodeOrder[i]), r \in rest}
             ELSE rest

Outputs(ids) == OutputsFrom(1, ids)

\* The remote service alone drives a job's status.
JobStarts(j) ==
    /\ jobs[j].status = "pending"
    /\ jobs' = [jobs EXCEPT ![j].status = "running"]
    /\ UNCHANGED <<durable, pc, volatile, tracked, parserVars>>

JobCompletes(j) ==
    /\ jobs[j].status = "running"
    /\ jobs' = [jobs EXCEPT ![j].status = "completed"]
    /\ UNCHANGED <<durable, pc, volatile, tracked, parserVars>>

JobFails(j) ==
    /\ jobs[j].status \in {"pending", "running"}
    /\ \E st \in {"failed", "cancelled"} : jobs' = [jobs EXCEPT ![j].status = st]
    /\ UNCHANGED <<durable, pc, volatile, tracked, parserVars>>

\* ------------------------------------------------------------------- main
\* Variant: the completed episodes are not subtracted.
check_missing_results_NoDiff(episode_metadata, res) == episode_metadata

check_missing_results(episode_metadata, res) == episode_metadata \ DOMAIN res

\* Variant: the existence of the transcript file is not tested.
load_transcript_AlwaysFound(e) == TRUE

\* load_transcript(episode_id) returns text iff the transcript file exists.
load_transcript(e) == e \in transcripts

\* Variant: the emptiness test is missing.
HasNewTranscripts_Always(nt) == TRUE

\* "if new_transcripts:" (line 330)
HasNewTranscripts(nt) == nt # {}

\* Variant: the stored id is never found.
check_for_tmp_batch_id_NeverFound == NoJob

\* check_for_tmp_batch_id(): the stored id, or False (NoJob) without a file.
check_for_tmp_batch_id == handleFile

\* Variant: "cancelled" is not recognised as a final status.
PollOutcome_CancelledWaits(status) ==
    IF status = "completed" THEN "return"
    ELSE IF status = "failed" THEN "raise"
    ELSE "wait"

\* Variant: "failed" is taken for a finished job.
PollOutcome_FailedReturns(status) ==
    IF status \in {"completed", "failed"} THEN "return"
    ELSE IF status = "cancelled" THEN "raise"
    ELSE "wait"

\* What one pass of the poller's loop does with the status it retrieved.
PollOutcome(status) ==
    IF status = "completed" THEN "return"
    ELSE IF status \in {"failed", "cancelled"} THEN "raise"
    ELSE "wait"

\* ------------------------------------------------------------ flashcards
\* detailed_episodes.json: the first episode has every field, the second only
\* its episode title.
Metadata ==
    [e \in Episodes |->
        IF e = "e1"
        THEN [podcast_title |-> "Pod", podcast_author |-> "Ann",
              episode_title |-> "One", date |-> "01.02.2025 10:00"]
        ELSE [episode_title |-> "Two"]]

\* dict.get(key, default)
Get(d, key, default) == IF key \in DOMAIN d THEN d[key] ELSE default

\* datetime.now().strftime("%Y-%m-%d")
Today == "2025-03-04"

\* markdown.markdown(text): the library's rendering, kept apart from its input.
Markdown(text) == [html |-> text]

create_flashcards_for_episode(episode_id, metadata, ai_result) ==
    [author |-> Get(metadata, "podcast_author", "Unknown"),
     date |-> Get(metadata, "date", Today),
     title |-> <<Get(metadata, "podcast_title", "Unknown Podcast"), " - ",
                 Get(metadata, "episode_title", "Unknown Episode")>>,
     quote |-> Markdown(Strip(ai_result))]

\* Variant: only the first point of an episode becomes a card.
CardsOfEpisode_FirstOnly(e, res) ==
    IF res[e] = <<>> THEN <<>>
    ELSE <<create_flashcards_for_episode(e, Metadata[e], res[e][1])>>

\* Lines 351-356: the cards of one episode.
CardsOfEpisode(e, res) ==
    [i \in 1..Len(res[e]) |-> create_flashcards_for_episode(e, Metadata[e], res[e][i])]

\* Lines 347-356, from the i-th episode of the metadata on.
RECURSIVE Flashcards(_, _)
Flashcards(i, res) ==
    IF i > Len(EpisodeOrder) THEN <<>>
    ELSE (IF EpisodeOrder[i] \in DOMAIN res
          THEN CardsOfEpisode(EpisodeOrder[i], res)
          ELSE <<>>) \o Flashcards(i + 1, res)

\* Lines 309-327: load the metadata and the results, diff, load transcripts.
LoadAndDiff ==
    /\ pc = "idle"
    /\ results' = resultsFile
    /\ new_transcripts' = {e \in check_missing_results(Episodes, resultsFile) :
                              load_transcript(e)}
    /\ pc' = "loaded"
    /\ UNCHANGED <<flashcards, durable, jobs, file_id, batch_id, batch_status, output_file_id,
                   ai_results, error, tracked, parserVars>>

\* Line 330 false: main returns without doing anything.
NothingToDo ==
    /\ pc = "loaded"
    /\ ~HasNewTranscripts(new_transcripts)
    /\ pc' = "idle"
    /\ ResetVolatile
    /\ UNCHANGED <<durable, jobs, tracked, parserVars>>

\* Lines 330-334 and 360-361: confirm_continue().
Confirm ==
    /\ pc = "loaded"
    /\ HasNewTranscripts(new_transcripts)
    /\ \E answer \in BOOLEAN :
          IF answer
          THEN /\ pc' = "confirmed"
               /\ UNCHANGED volatile
          ELSE /\ pc' = "idle"
               /\ ResetVolatile
    /\ UNCHANGED <<durable, jobs, tracked, parserVars>>

\* Lines 335-337.
CheckTmpBatchId ==
    /\ pc = "confirmed"
    /\ batch_id' = check_for_tmp_batch_id
    /\ pc' = IF check_for_tmp_batch_id # NoJob THEN "poll" ELSE "create"
    /\ UNCHANGED <<flashcards, durable, jobs, results, new_transcripts, file_id, batch_status,
                   output_file_id, ai_results, error, tracked, parserVars>>

\* create_new_batch, line 299: create_jsonl_file(new_transcripts).
CreateJsonlFile ==
    /\ pc = "create"
    /\ tasksFile' = new_transcripts
    /\ pc' = "jsonl"
    /\ UNCHANGED <<csvFile, transcripts, resultsFile, handleFile, outputFile, jobs,
                   volatile, tracked, parserVars>>

\* create_new_batch, line 300: upload_jsonl_file(TASKS_FILE).
UploadJsonlFile ==
    /\ pc = "jsonl"
    /\ file_id' = tasksFile
    /\ pc' = "uploaded"
    /\ UNCHANGED <<flashcards, durable, jobs, results, new_transcripts, batch_id, batch_status,
                   output_file_id, ai_results, error, tracked, parserVars>>

\* create_batch_request, lines 151-158: client.batches.create.
CreateBatch ==
    /\ pc = "uploaded"
    /\ Len(jobs) < MaxJobs
    /\ jobs' = Append(jobs, [ids |-> file_id, status |-> "pending"])
    /\ batch_id' = Len(jobs) + 1
    /\ pc' = "created"
    /\ UNCHANGED <<flashcards, durable, results, new_transcripts, file_id, batch_status,
                   output_file_id, ai_results, error, tracked, parserVars>>

\* create_batch_request, lines 160-163: store the id in last_batch_id.
StoreBatchId ==
    /\ pc = "created"
    /\ handleFile' = batch_id
    /\ tracked' = batch_id
    /\ pc' = "poll"
    /\ UNCHANGED <<csvFile, transcripts, resultsFile, outputFile, tasksFile, jobs,
                   volatile, parserVars>>

\* Variant: a pass that has to wait deletes the handle file.
PollOnce_WaitDropsHandle ==
    /\ pc = "poll"
    /\ batch_status' = jobs[batch_id].status
    /\ LET outcome == PollOutcome(jobs[batch_id].status)
       IN  /\ pc' = CASE outcome = "return" -> "polled"
                      [] outcome = "raise" -> "raised"
                      [] OTHER -> "poll"
           /\ output_file_id' = IF outcome = "return" THEN batch_id ELSE output_file_id
           /\ error' = IF outcome = "raise"
                       THEN [kind |-> "RuntimeError", batch_id |-> batch_id,
                             status |-> jobs[batch_id].status]
                       ELSE error
           /\ handleFile' = IF outcome = "wait" THEN NoJob ELSE handleFile
    /\ UNCHANGED <<csvFile, flashcards, transcripts, resultsFile, outputFile, tasksFile, jobs, results,
                   new_transcripts, file_id, batch_id, ai_results, tracked, parserVars>>

\* Variant: a pass that raises deletes the handle file first.
PollOnce_RaiseDropsHandle ==
    /\ pc = "poll"
    /\ batch_status' = jobs[batch_id].status
    /\ LET outcome == PollOutcome(jobs[batch_id].status)
       IN  /\ pc' = CASE outcome = "return" -> "polled"
                      [] outcome = "raise" -> "raised"
                      [] OTHER -> "poll"
           /\ output_file_id' = IF outcome = "return" THEN batch_id ELSE output_file_id
           /\ error' = IF outcome = "raise"
                       THEN [kind |-> "RuntimeError", batch_id |-> batch_id,
                             status |-> jobs[batch_id].status]
                       ELSE error
           /\ handleFile' = IF outcome = "raise" THEN NoJob ELSE handleFile
    /\ UNCHANGED <<csvFile, flashcards, transcripts, resultsFile, outputFile, tasksFile, jobs, results,
                   new_transcripts, file_id, batch_id, ai_results, tracked, parserVars>>

\* poll_batch_status, one pass of the loop (lines 170-177).
PollOnce ==
    /\ pc = "poll"
    /\ batch_status' = jobs[batch_id].status
    /\ LET outcome == PollOutcome(jobs[batch_id].status)
       IN  /\ pc' = CASE outcome = "return" -> "polled"
                      [] outcome = "raise" -> "raised"
                      [] OTHER -> "poll"
           /\ output_file_id' = IF outcome = "return" THEN batch_id ELSE output_file_id
           /\ error' = IF outcome = "raise"
                       THEN [kind |-> "RuntimeError", batch_id |-> batch_id,
                             status |-> jobs[batch_id].status]
                       ELSE error
    /\ UNCHANGED <<flashcards, durable, jobs, results, new_transcripts, file_id, batch_id,
                   ai_results, tracked, parserVars>>

\* Variant: the handle file is deleted before the output is fetched.
FetchAndWrite_ClearsFirst ==
    /\ pc = "polled"
    /\ handleFile' = NoJob
    /\ \/ /\ \E out \in Outputs(jobs[output_file_id].ids) : outputFile' = out
          /\ pc' = "written"
          /\ UNCHANGED error
       \/ /\ error' = [kind |-> "APIError", batch_id |-> batch_id, status |-> "none"]
          /\ pc' = "raised"
          /\ UNCHANGED outputFile
    /\ UNCHANGED <<csvFile, flashcards, transcripts, resultsFile, tasksFile, jobs, results,
                   new_transcripts, file_id, batch_id, batch_status, output_file_id,
                   ai_results, tracked, parserVars>>

\* download_batch_results, lines 192-198: fetch the output and write it to
\* batch_output.jsonl; the fetch may fail. The service's answer is drawn here:
\* a job is fetched a second time only when the first answer was never read
\* back from the file.
FetchAndWrite ==
    /\ pc = "polled"
    /\ \/ /\ \E out \in Outputs(jobs[output_file_id].ids) : outputFile' = out
          /\ pc' = "written"
          /\ UNCHANGED error
       \/ /\ error' = [kind |-> "APIError", batch_id |-> batch_id, status |-> "none"]
          /\ pc' = "raised"
          /\ UNCHANGED outputFile
    /\ UNCHANGED <<csvFile, flashcards, transcripts, resultsFile, handleFile, tasksFile, jobs, results,
                   new_transcripts, file_id, batch_id, batch_status, output_file_id,
                   ai_results, tracked, parserVars>>

\* download_batch_results, line 201: remove_batch_id_tmp_file().
RemoveBatchIdTmpFile ==
    /\ pc = "written"
    /\ handleFile' = NoJob
    /\ pc' = "removed"
    /\ UNCHANGED <<csvFile, transcripts, resultsFile, outputFile, tasksFile, jobs,
                   volatile, tracked, parserVars>>

\* download_batch_results, lines 203-209: json.loads on every line, outside
\* any try; then return.
ParseDownloaded ==
    /\ pc = "removed"
    /\ IF \E i \in 1..Len(outputFile) : outputFile[i].malformed
       THEN /\ error' = [kind |-> "JSONDecodeError", batch_id |-> batch_id,
                         status |-> "none"]
            /\ pc' = "raised"
            /\ UNCHANGED tracked
       ELSE /\ pc' = "downloaded"
            /\ tracked' = NoJob
            /\ UNCHANGED error
    /\ UNCHANGED <<flashcards, durable, jobs, results, new_transcripts, file_id, batch_id,
                   batch_status, output_file_id, ai_results, parserVars>>

\* Line 342.
ProcessBatchResults ==
    /\ pc = "downloaded"
    /\ ai_results' = process_batch_results(outputFile)
    /\ pc' = "processed"
    /\ UNCHANGED <<flashcards, durable, jobs, results, new_transcripts, file_id, batch_id,
                   batch_status, output_file_id, error, tracked, parserVars>>

\* Line 343.
UpdateResults ==
    /\ pc = "processed"
    /\ results' = Update(results, ai_results)
    /\ pc' = "updated"
    /\ UNCHANGED <<flashcards, durable, jobs, new_transcripts, file_id, batch_id, batch_status,
                   output_file_id, ai_results, error, tracked, parserVars>>

\* Line 344: save_results(results).
SaveResults ==
    /\ pc = "updated"
    /\ resultsFile' = results
    /\ pc' = "saved"
    /\ UNCHANGED <<csvFile, transcripts, handleFile, outputFile, tasksFile, jobs,
                   volatile, tracked, parserVars>>

\* Lines 346-356: one flashcard per stored point, in the metadata's order.
AssembleFlashcards ==
    /\ pc = "saved"
    /\ flashcards' = Flashcards(1, results)
    /\ pc' = "assembled"
    /\ UNCHANGED <<durable, jobs, results, new_transcripts, file_id, batch_id,
                   batch_status, output_file_id, ai_results, error, tracked, parserVars>>

\* Line 359: save_flashcards_to_csv(flashcards); then main returns.
SaveFlashcards ==
    /\ pc = "assembled"
    /\ csvFile' = [i \in 1..Len(flashcards) |->
                      <<flashcards[i].quote, flashcards[i].title,
                        flashcards[i].author, flashcards[i].date>>]
    /\ pc' = "idle"
    /\ ResetVolatile
    /\ UNCHANGED <<transcripts, resultsFile, handleFile, outputFile, tasksFile,
                   jobs, tracked, parserVars>>

\* An uncaught exception ends the process.
ExitOnError ==
    /\ pc = "raised"
    /\ pc' = "idle"
    /\ ResetVolatile
    /\ UNCHANGED <<durable, jobs, tracked, parserVars>>

\* The process is interrupted (killed) between two statements; a file write
\* is one statement.
Interrupt ==
    /\ pc \notin {"idle", "raised"}
    /\ pc' = "idle"
    /\ ResetVolatile
    /\ UNCHANGED <<durable, jobs, tracked, parserVars>>

Next ==
    \/ \E e \in Episodes : TranscriptAppears(e)
    \/ \E j \in 1..Len(jobs) : JobStarts(j)
    \/ \E j \in 1..Len(jobs) : JobCompletes(j)
    \/ \E j \in 1..Len(jobs) : JobFails(j)
    \/ LoadAndDiff
    \/ NothingToDo
    \/ Confirm
    \/ CheckTmpBatchId
    \/ CreateJsonlFile
    \/ UploadJsonlFile
    \/ CreateBatch
    \/ StoreBatchId
    \/ PollOnce
    \/ FetchAndWrite
    \/ RemoveBatchIdTmpFile
    \/ ParseDownloaded
    \/ ProcessBatchResults
    \/ UpdateResults
    \/ SaveResults
    \/ AssembleFlashcards
    \/ SaveFlashcards
    \/ ExitOnError
    \/ Interrupt

Spec == Init /\ [][Next]_vars

\* Some job moves on at the remote service.
JobAdvance == \E j \in 1..Len(jobs) : JobStarts(j) \/ JobCompletes(j) \/ JobFails(j)

\* The poller's loop comes round again after each sleep (line 177), and the
\* remote service brings every job to a final status.
FairSpec == Init /\ [][Next]_vars /\ WF_vars(PollOnce) /\ WF_vars(JobAdvance)

\* ------------------------------------- process_batch_results, step by step
LineSet == {Line_1A, Line_2B, Line_x, Line_t, Line_blank}

\* "1. Point A\n- ev1\n- ev2\n2. Point B\n"
Content_Example ==
    <<"1", ".", " ", "P", "o", "i", "n", "t", " ", "A", NL,
      "-", " ", "e", "v", "1", NL,
      "-", " ", "e", "v", "2", NL,
      "2", ".", " ", "P", "o", "i", "n", "t", " ", "B", NL>>

\* "1. A\n - x\n\n - x\nt\n2. B"
Content_Long == Join(<<Line_1A, Line_x, Line_blank, Line_x, Line_t, Line_2B>>)

\* Every content of one to MaxLines lines over LineSet, and three longer ones.
Contents ==
    {Join(ls) : ls \in UNION {[1..k -> LineSet] : k \in 1..MaxLines}}
        \cup {Content_Example, Content_Ax_B, Content_Long}

ParserRecords ==
    {MalformedLine}
        \cup {Record(id, code, c) : id \in Episodes, code \in {200, 500}, c \in Contents}

\* Lines 225-242: read the next line of the file and decode it.
P_ReadRecord ==
    /\ ppc = "open"
    /\ \E rec \in ParserRecords :
          /\ record' = rec
          /\ IF ~rec.malformed /\ IsSuccess(rec)
             THEN /\ ppc' = "inner"
                  /\ lines' = Split(rec.content)
             ELSE /\ ppc' = "skipped"
                  /\ lines' = <<>>
    /\ points' = <<>>
    /\ current_point' = <<>>
    /\ UNCHANGED <<durable, jobs, pc, volatile, tracked, result, is_first_subitem>>

\* Lines 245-266: one pass of the loop over the content's lines.
P_ParseLine ==
    /\ ppc = "inner"
    /\ lines # <<>>
    /\ LET st == ParseLine([points |-> points, current_point |-> current_point,
                            is_first_subitem |-> is_first_subitem], Head(lines))
       IN  /\ points' = st.points
           /\ current_point' = st.current_point
           /\ is_first_subitem' = st.is_first_subitem
    /\ lines' = Tail(lines)
    /\ UNCHANGED <<durable, jobs, pc, volatile, tracked, ppc, record, result>>

\* Line 268: result[custom_id] = points.
P_Store ==
    /\ ppc = "inner"
    /\ lines = <<>>
    /\ result' = Put(result, record.custom_id, points)
    /\ ppc' = "stored"
    /\ UNCHANGED <<durable, jobs, pc, volatile, tracked, record, is_first_subitem,
                   points, current_point, lines>>

\* Back to line 225 for the next line of the file.
P_NextRecord ==
    /\ ppc \in {"stored", "skipped"}
    /\ ppc' = "open"
    /\ record' = NoRecord
    /\ points' = <<>>
    /\ current_point' = <<>>
    /\ UNCHANGED <<durable, jobs, pc, volatile, tracked, result, is_first_subitem, lines>>

\* Line 273: the file is exhausted.
P_Return ==
    /\ ppc = "open"
    /\ ppc' = "returned"
    /\ UNCHANGED <<durable, jobs, pc, volatile, tracked, record, result,
                   is_first_subitem, points, current_point, lines>>

ParserNext ==
    \/ P_ReadRecord
    \/ P_ParseLine
    \/ P_Store
    \/ P_NextRecord
    \/ P_Return

ParserSpec == Init /\ [][ParserNext]_vars

\* ------------------------------------------ transcript files, by their paths
\* Here an episode id is a sequence of characters and the variable transcripts
\* holds the paths of the transcript files that exist.
TRANSCRIPT_DIR == <<"t", "r", "a", "n", "s", "c", "r", "i", "p", "t", "s">>
Txt == <<".", "t", "x", "t">>

\* str.replace(old, new) for one-character old and new.
RECURSIVE Replace(_, _, _)
Replace(s, old, new) ==
    IF s = <<>> THEN <<>>
    ELSE <<IF Head(s) = old THEN new ELSE Head(s)>> \o Replace(Tail(s), old, new)

\* os.path.join(a, b): an absolute b discards a.
PathJoin(a, b) ==
    IF b # <<>> /\ Head(b) = "/" THEN b ELSE a \o <<"/">> \o b

\* process_podcasts.py, lines 98-99: the path process_episodes tests and
\* transcribe_episode writes.
WrittenPath(id) == PathJoin(TRANSCRIPT_DIR, Replace(id, "/", "_") \o Txt)

\* create_anki_cards.py, line 71: the path load_transcript tests and reads.
ReadPath(id) == PathJoin(TRANSCRIPT_DIR, id \o Txt)

\* The ids of the metadata: "a", "b", "a/b", "a_b", "/a".
KeyEpisodes ==
    {<<"a">>, <<"b">>, <<"a", "/", "b">>, <<"a", "_", "b">>, <<"/", "a">>}

\* process_episodes, one iteration of the loop (lines 97-107).
K_ProcessEpisode(id) ==
    /\ WrittenPath(id) \notin transcripts
    /\ transcripts' = transcripts \cup {WrittenPath(id)}
    /\ UNCHANGED <<csvFile, resultsFile, handleFile, outputFile, tasksFile, jobs, pc,
                   volatile, tracked, parserVars>>

\* main, lines 309-327, with load_transcript looking up the path of line 71.
K_LoadAndDiff ==
    /\ pc = "idle"
    /\ results' = resultsFile
    /\ new_transcripts' = {id \in check_missing_results(KeyEpisodes, resultsFile) :
                              ReadPath(id) \in transcripts}
    /\ pc' = "loaded"
    /\ UNCHANGED <<flashcards, durable, jobs, file_id, batch_id, batch_status, output_file_id,
                   ai_results, error, tracked, parserVars>>

\* main, lines 330-361, in one step: the batch answers for some of the
\* submitted ids, their entries are merged and saved, and main returns.
K_StoreResults ==
    /\ pc = "loaded"
    /\ \E answered \in SUBSET new_transcripts :
          resultsFile' = Update(results, [id \in answered |-> <<>>])
    /\ pc' = "idle"
    /\ ResetVolatile
    /\ UNCHANGED <<csvFile, transcripts, handleFile, outputFile, tasksFile, jobs,
                   tracked, parserVars>>

KeyNext ==
    \/ \E id \in KeyEpisodes : K_ProcessEpisode(id)
    \/ K_LoadAndDiff
    \/ K_StoreResults

KeySpec == Init /\ [][KeyNext]_vars

\* ===================================================================== claims

\* Number of lines of a content that match '<integer>. <text>'.
RECURSIVE CountNumbered(_)
CountNumbered(ls) ==
    IF ls = <<>> THEN 0
    ELSE (IF PatternMatch(Strip(Head(ls))).ok THEN 1 ELSE 0) + CountNumbered(Tail(ls))

\* C1: for every 200 record, the number of points stored for its episode
\* equals the number of numbered lines of its content, the last one included.
C1_NoPointDropped ==
    ppc = "stored" =>
        Len(result[record.custom_id]) = CountNumbered(Split(record.content))

\* C2: from the moment the poller has returned for a completed job until
\* save_results has run, the handle file still holds that job's id.
C2_HandleKeptUntilSaved ==
    pc \in {"polled", "written", "removed", "downloaded", "processed", "updated"}
        => handleFile = batch_id

\* C3: while a job id has been stored and download_batch_results has not
\* returned for it, a run that reaches check_for_tmp_batch_id gets that id
\* back and goes on to poll it, not to create_new_batch.
C3_CrashResume ==
    [][(pc = "confirmed" /\ pc' \notin {"confirmed", "idle"} /\ tracked # NoJob)
          => (pc' = "poll" /\ batch_id' = tracked)]_vars

\* C4: the poller hands out an output locator only when the status it
\* retrieved is "completed"; on "failed" or "cancelled" it raises an error
\* carrying the job id and that status, and there is no locator.
C4_PollerResult ==
    /\ output_file_id # NoJob =>
          /\ batch_status = "completed"
          /\ jobs[batch_id].status = "completed"
          /\ output_file_id = batch_id
    /\ pc = "polled" => output_file_id # NoJob
    /\ batch_status \in {"failed", "cancelled"} =>
          /\ pc = "raised"
          /\ error = [kind |-> "RuntimeError", batch_id |-> batch_id,
                      status |-> batch_status]
          /\ output_file_id = NoJob

\* A resumed or second job was polled and found cancelled.
C4_Witness ==
    /\ pc = "raised"
    /\ batch_status = "cancelled"
    /\ batch_id = 2
    /\ handleFile = 2

\* Lines of a point, as laid out by "\n".join.
IsBullet(l) == l # <<>> /\ Head(l) = "-"
NumberedTexts(content) ==
    {Strip(PatternMatch(Strip(l)).group1) :
        l \in {x \in {Split(content)[i] : i \in 1..Len(Split(content))} :
                  PatternMatch(Strip(x)).ok}}
WellLaidOut(point, content) ==
    LET ls == Split(point)
        blanks == {i \in 1..Len(ls) : ls[i] = <<>>}
        bullets == {i \in 1..Len(ls) : IsBullet(ls[i])}
    IN  /\ ls[1] \in NumberedTexts(content)
        /\ IF bullets = {}
           THEN blanks = {}
           ELSE \E b \in bullets :
                   /\ \A c \in bullets : b <= c
                   /\ blanks = {b - 1}

Point_A_ev1_ev2 ==
    <<"P", "o", "i", "n", "t", " ", "A", NL, NL,
      "-", " ", "e", "v", "1", NL, "-", " ", "e", "v", "2">>
Point_B == <<"P", "o", "i", "n", "t", " ", "B">>

\* C5: every parsed point is a numbered line's text, with exactly one blank
\* line before its first sub-item if it has sub-items and no blank line
\* otherwise; the example content parses to "Point A\n\n- ev1\n- ev2" and
\* "Point B".
C5_PointLayout ==
    ppc = "stored" =>
        /\ \A i \in 1..Len(points) : WellLaidOut(points[i], record.content)
        /\ record.content = Content_Example =>
              result[record.custom_id] = <<Point_A_ev1_ev2, Point_B>>

\* C6: the points stored for a record are those a separate call would
\* produce for the same content, whatever records came before it.
C6_SameContentSamePoints ==
    ppc = "stored" =>
        result[record.custom_id] = ParseContent(record.content, FALSE).points

\* C7: an unparsable line in the fetched output never aborts the run.
C7_MalformedNotFatal == error.kind # "JSONDecodeError"

\* C8: an episode that is in the Result Store stays there with the same
\* point list, whatever the runs do.
C8_AppendOnly ==
    [][\A e \in DOMAIN resultsFile :
          e \in DOMAIN resultsFile' /\ resultsFile'[e] = resultsFile[e]]_vars

\* A run has merged a job's results into a store that already held another
\* episode.
C8_Witness ==
    /\ pc = "saved"
    /\ DOMAIN ai_results # {}
    /\ DOMAIN resultsFile \ DOMAIN ai_results # {}

\* C9: a run that finds no ready, unprocessed episode goes no further than
\* the diff: it creates no job and leaves the Result Store and the handle as
\* they are.
C9_NothingNewNothingDone ==
    [][(pc # "idle" /\ new_transcripts = {}) =>
          /\ pc = "loaded"
          /\ pc' \in {"loaded", "idle"}
          /\ resultsFile' = resultsFile
          /\ handleFile' = handleFile
          /\ tasksFile' = tasksFile
          /\ Len(jobs') = Len(jobs)]_vars

\* A second run, after results were saved, with nothing new.
C9_Witness ==
    /\ pc = "loaded"
    /\ new_transcripts = {}
    /\ resultsFile # EmptyDict
    /\ transcripts = Episodes

\* C10: the result changes only while the record at hand is a well-formed
\* record with status 200; a record with another status adds nothing.
C10_NonSuccessAddsNothing ==
    [][result' # result => (~record.malformed /\ record.status_code = 200)]_vars

\* A 500 record with numbered content, read after other records were stored.
C10_Witness ==
    /\ ppc = "skipped"
    /\ record.status_code = 500
    /\ record.content = Content_Example
    /\ record.custom_id \in DOMAIN result
    /\ result[record.custom_id] # <<>>

\* The lines of a content from its first numbered line on.
RECURSIVE DropPreamble(_)
DropPreamble(ls) ==
    IF ls = <<>> THEN <<>>
    ELSE IF PatternMatch(Strip(Head(ls))).ok THEN ls
    ELSE DropPreamble(Tail(ls))

\* C11: what precedes the first numbered line of a content leaves no trace:
\* the points stored are those of the content without these lines.
C11_PreambleDiscarded ==
    ppc = "stored" =>
        result[record.custom_id] =
            ParseLines([points |-> <<>>, current_point |-> <<>>,
                        is_first_subitem |-> FALSE],
                       DropPreamble(Split(record.content))).points

\* C12: a content without a numbered line is stored with zero points.
C12_NoNumberedLineNoPoints ==
    (ppc = "stored" /\ CountNumbered(Split(record.content)) = 0)
        => result[record.custom_id] = <<>>

\* A content of text and a bullet, without a numbered line, has been stored.
C12_Witness ==
    /\ ppc = "stored"
    /\ record.content = Join(<<Line_t, Line_x>>)
    /\ current_point # <<>>
    /\ record.custom_id \in DOMAIN result

\* C13: the handle file is deleted only by the statement that follows the
\* writing of the fetched output to batch_output.jsonl; a run whose fetch
\* failed has raised with the handle still holding its job id.
C13_PersistBeforeClear ==
    [][/\ (handleFile # NoJob /\ handleFile' = NoJob) =>
             (pc = "written" /\ output_file_id = handleFile)
       /\ (pc' = "raised" /\ error'.kind = "APIError") =>
             (handleFile' = batch_id' /\ handleFile' # NoJob)]_vars

\* The fetch failed and the handle is still there for the next run.
C13_Witness ==
    /\ pc = "raised"
    /\ error.kind = "APIError"
    /\ handleFile = batch_id
    /\ jobs[handleFile].status = "completed"

\* C14: the diff step yields exactly the episodes of the metadata that are not
\* keys of the Result Store and have a transcript, raises nothing, and writes
\* no file.
C14_PendingWork ==
    [][(pc = "idle" /\ pc' # "idle") =>
          /\ new_transcripts' =
                {e \in Episodes : e \notin DOMAIN resultsFile /\ e \in transcripts}
          /\ pc' = "loaded"
          /\ error' = NoError
          /\ UNCHANGED <<durable, jobs>>]_vars

\* One episode is done, one is ready, and the diff found the ready one only.
C14_Witness ==
    /\ pc = "loaded"
    /\ Cardinality(new_transcripts) = 1
    /\ DOMAIN resultsFile # {}
    /\ DOMAIN results = DOMAIN resultsFile
    /\ new_transcripts \cap DOMAIN results = {}

\* C15: a job is created only while no handle is stored, and a run that finds
\* a handle polls the job it names.
C15_OneJobInFlight ==
    [][/\ Len(jobs') > Len(jobs) => handleFile = NoJob
       /\ (pc = "confirmed" /\ pc' \notin {"confirmed", "idle"} /\ handleFile # NoJob)
             => (pc' = "poll" /\ batch_id' = handleFile)
       /\ pc' = "poll" => (batch_id' # NoJob /\ handleFile' = batch_id')]_vars

\* A run found the handle of an earlier run and polls that job.
C15_Witness ==
    /\ pc = "poll"
    /\ handleFile = batch_id
    /\ batch_id # NoJob
    /\ file_id = {}
    /\ Len(jobs) = 1

\* Sum of len(points) over a set of episodes of a store.
RECURSIVE SumPoints(_, _)
SumPoints(res, eps) ==
    IF eps = {} THEN 0
    ELSE LET e == CHOOSE x \in eps : TRUE
         IN  Len(res[e]) + SumPoints(res, eps \ {e})

Populated(card) ==
    /\ card.quote.html # <<>>
    /\ \A i \in 1..Len(card.title) : card.title[i] # ""
    /\ card.author # ""
    /\ card.date # ""

\* C16: the assembler yields as many cards as there are stored points over the
\* episodes that have a Result Store entry and metadata, each with its four
\* fields filled, the defaults standing in for the fields the metadata lacks.
C16_OneCardPerPoint ==
    pc = "assembled" =>
        /\ Len(flashcards) = SumPoints(results, DOMAIN results \cap Episodes)
        /\ \A i \in 1..Len(flashcards) : Populated(flashcards[i])
        /\ \A i \in 1..Len(flashcards) :
              \/ /\ flashcards[i].author = "Ann"
                 /\ flashcards[i].title = <<"Pod", " - ", "One">>
                 /\ flashcards[i].date = "01.02.2025 10:00"
              \/ /\ flashcards[i].author = "Unknown"
                 /\ flashcards[i].title = <<"Unknown Podcast", " - ", "Two">>
                 /\ flashcards[i].date = Today

\* The first episode has two points and the second has one, stored by
\* different runs, and the cards of all three were assembled.
C16_Witness ==
    /\ pc = "assembled"
    /\ Len(flashcards) = 3
    /\ Len(results["e1"]) = 2
    /\ flashcards[2].author = "Ann"
    /\ flashcards[3].author = "Unknown"
    /\ DOMAIN ai_results # DOMAIN results

\* C17: with a service that brings the job to a final status, a poller that
\* is polling eventually returns or raises, and it does so only on a final
\* status.
C17_PollerStops ==
    /\ (pc = "poll") ~> (pc # "poll")
    /\ [][(pc = "poll" /\ pc' \in {"polled", "raised"}) =>
             jobs[batch_id].status \in {"completed", "failed", "cancelled"}]_vars

\* The poller has returned for the second job, which it had seen running.
C17_Witness ==
    /\ pc = "polled"
    /\ batch_id = 2
    /\ jobs[1].status = "running"
    /\ jobs[2].status = "completed"

\* C18: a pass of the poller over a job that is still pending leaves the
\* handle file, the Result Store and the output artifact as they were, keeps
\* tracking the same job, and creates no batch job.
C18_PollingIdempotent ==
    [][(pc = "poll" /\ pc' = "poll") =>
          /\ UNCHANGED <<handleFile, resultsFile, outputFile, batch_id>>
          /\ Len(jobs') = Len(jobs)]_vars

\* The poller has seen the job running and the job is still running.
C18_Witness ==
    /\ pc = "poll"
    /\ batch_status = "running"
    /\ jobs[batch_id].status = "running"
    /\ handleFile = batch_id

\* The handle file names a job that ended as failed or cancelled.
HandleIsDead ==
    /\ handleFile # NoJob
    /\ jobs[handleFile].status \in {"failed", "cancelled"}

\* C19: a run aborted by the job's failure or by a failed fetch of the output
\* leaves the Result Store as it was loaded at the start of the run, and the
\* handle file, if it names a job, names one a later run can still collect.
C19_AbortLeavesResumable ==
    (pc = "raised" /\ error.kind \in {"RuntimeError", "APIError"}) =>
        /\ resultsFile = results
        /\ ~HandleIsDead

\* C20: once the handle file names a failed or cancelled job, no step changes
\* the handle file, creates a batch job or writes the Result Store; a run
\* started in that state has pending episodes, and one that goes on past the
\* confirmation loads that job id, polls it and raises.
C20_DeadHandleStays ==
    [][HandleIsDead =>
          /\ handleFile' = handleFile
          /\ jobs'[handleFile].status = jobs[handleFile].status
          /\ Len(jobs') = Len(jobs)
          /\ resultsFile' = resultsFile
          /\ pc = "loaded" => new_transcripts # {}
          /\ (pc = "confirmed" /\ pc' \notin {"confirmed", "idle"}) =>
                (pc' = "poll" /\ batch_id' = handleFile)
          /\ (pc = "poll" /\ pc' \notin {"poll", "idle"}) =>
                /\ pc' = "raised"
                /\ error' = [kind |-> "RuntimeError", batch_id |-> handleFile,
                             status |-> jobs[handleFile].status]]_vars

\* A run that found the id in the handle file, without uploading anything
\* itself, has polled the dead job and raised; the handle file still names it.
C20_Witness ==
    /\ pc = "raised"
    /\ error.kind = "RuntimeError"
    /\ file_id = {}
    /\ HandleIsDead
    /\ batch_id = handleFile

\* The output file holds a well-formed record of episode e with status 200.
Has200(file, e) ==
    \E i \in 1..Len(file) :
        /\ ~file[i].malformed
        /\ file[i].custom_id = e
        /\ file[i].status_code = 200

\* What the next run would take as pending, from the files as they are now.
PendingNext == {e \in check_missing_results(Episodes, resultsFile) : load_transcript(e)}

\* C21: once a run has saved the Result Store, an episode of the submitted
\* batch is pending for the next run exactly when the output file has no
\* well-formed record of it with status 200; such a record gives the episode
\* an entry even with no points; and no batch job is ever created for an
\* episode that has an entry.
C21_PendingIffNo200 ==
    [][/\ pc' \in {"saved", "assembled"} =>
             \A e \in jobs'[output_file_id'].ids :
                 /\ e \in PendingNext' <=> ~Has200(outputFile', e)
                 /\ Has200(outputFile', e) => e \in DOMAIN resultsFile'
       /\ Len(jobs') > Len(jobs) =>
             jobs'[Len(jobs')].ids \cap DOMAIN resultsFile = {}]_vars

\* A saved run whose batch held both episodes: the first got a status-200
\* record that parsed to no point and has an empty entry, the second got no
\* such record and is pending again.
C21_Witness ==
    /\ pc = "saved"
    /\ jobs[output_file_id].ids = {"e1", "e2"}
    /\ Has200(outputFile, "e1")
    /\ resultsFile["e1"] = <<>>
    /\ ~Has200(outputFile, "e2")
    /\ PendingNext = {"e2"}

\* C22: when main has loaded the transcripts, every episode of the metadata
\* whose transcript process_episodes has written and which has no result is
\* in the pending mapping.
C22_TranscriptKeyed ==
    pc = "loaded" =>
        \A id \in KeyEpisodes :
            (WrittenPath(id) \in transcripts /\ id \notin DOMAIN resultsFile)
                => id \in new_transcripts
====
